---- MODULE Spec2Model ----
(***************************************************************************)
(* Model of rust/tire_core/src/lib.rs: the contact force/torque aggregator *)
(* (tire_aggregate_contacts) and the wear and thermal stepper              *)
(* (tire_step_wear_and_temperature).                                       *)
(*                                                                         *)
(* An f32 is modelled bit for bit as a record [k, s, m, e]:                *)
(*   k = "fin": the number s * m * 2^e with sign s in {1, -1}; a normal    *)
(*              number has 2^23 <= m < 2^24 and EMin <= e <= EMax, a       *)
(*              subnormal one 0 < m < 2^23 and e = EMin, and the two       *)
(*              zeros have m = 0 and e = EMin                              *)
(*   k = "inf": +infinity (s = 1) or -infinity (s = -1)                    *)
(*   k = "nan": not a number (one NaN; payloads are not told apart)        *)
(* Every operation rounds its exact result to the nearest f32, ties to     *)
(* even, overflows to an infinity and underflows through the subnormals,   *)
(* as IEEE-754 binary32 arithmetic does.                                   *)
(***************************************************************************)
EXTENDS Integers, Sequences, FiniteSets

(***************************************************************************)
(* f32 values                                                              *)
(***************************************************************************)
Abs(n) == IF n < 0 THEN -n ELSE n

Sign(n) == IF n < 0 THEN -1 ELSE IF n > 0 THEN 1 ELSE 0

\* Width of the significand of an f32, hidden bit included.
MantBits == 24

\* Exponent of the last place of the smallest and of the largest f32.
EMin == -149

EMax == 104

\* The powers of two 2^0 .. 2^30.
Pow2Table ==
    <<1, 2, 4, 8, 16, 32, 64, 128, 256, 512, 1024, 2048, 4096, 8192, 16384,
      32768, 65536, 131072, 262144, 524288, 1048576, 2097152, 4194304,
      8388608, 16777216, 33554432, 67108864, 134217728, 268435456,
      536870912, 1073741824>>

Pow2(k) == Pow2Table[k + 1]

\* The least k in lo..hi with n < 2^k (2^(lo-1) <= n < 2^hi), by bisection.
RECURSIVE BitLenIn(_, _, _)
BitLenIn(n, lo, hi) ==
    IF lo = hi THEN lo
    ELSE LET mid == (lo + hi) \div 2
         IN  IF n < Pow2(mid) THEN BitLenIn(n, lo, mid) ELSE BitLenIn(n, mid + 1, hi)

\* Number of bits of 0 <= n < 2^30.
BitLen(n) == BitLenIn(n, 0, 30)

NaN == [k |-> "nan", s |-> 1, m |-> 0, e |-> 0]

PInf == [k |-> "inf", s |-> 1, m |-> 0, e |-> 0]

NInf == [k |-> "inf", s |-> -1, m |-> 0, e |-> 0]

Inf(s) == IF s < 0 THEN NInf ELSE PInf

\* +0.0 and -0.0
FZero(s) == [k |-> "fin", s |-> s, m |-> 0, e |-> EMin]

\* The f32 nearest to s * (M + t) * 2^E, ties to even, where 0 <= M < 2^30
\* and 0 <= t < 1 with t > 0 iff sticky; sticky is set only when M >= 2^25.
RoundPack(s, M, E, sticky) ==
    IF M = 0 THEN FZero(s)
    ELSE LET nb  == BitLen(M)
             e0  == E + nb - MantBits
             e1  == IF e0 < EMin THEN EMin ELSE e0
             sh  == e1 - E
         IN  IF sh <= 0 THEN
                 (IF e1 > EMax THEN Inf(s)
                  ELSE [k |-> "fin", s |-> s, m |-> M * Pow2(-sh), e |-> e1])
             ELSE IF sh > nb THEN FZero(s)
             ELSE LET q    == M \div Pow2(sh)
                      r    == M % Pow2(sh)
                      half == Pow2(sh - 1)
                      up   == r > half \/ (r = half /\ (sticky \/ q % 2 = 1))
                      m1   == IF up THEN q + 1 ELSE q
                      m2   == IF m1 = Pow2(MantBits) THEN Pow2(MantBits - 1) ELSE m1
                      e2   == IF m1 = Pow2(MantBits) THEN e1 + 1 ELSE e1
                  IN  IF e2 > EMax THEN Inf(s)
                      ELSE [k |-> "fin", s |-> s, m |-> m2, e |-> e2]

\* `n as f32` for an integer n, and the literal n.0
Num(n) ==
    IF Abs(n) < Pow2(30) THEN RoundPack(IF n < 0 THEN -1 ELSE 1, Abs(n), 0, FALSE)
    ELSE RoundPack(IF n < 0 THEN -1 ELSE 1, Abs(n) \div 64, 6, Abs(n) % 64 # 0)

Zero == FZero(1)

One == Num(1)

IsNaN(a) == a.k = "nan"

IsFinite(a) == a.k = "fin"

IsZero(a) == a.k = "fin" /\ a.m = 0

FNeg(a) == IF a.k = "nan" THEN NaN ELSE [a EXCEPT !.s = -a.s]

FAbs(a) == IF a.k = "nan" THEN NaN ELSE [a EXCEPT !.s = 1]

\* The significand of a nonzero finite f32 brought to MantBits bits.
NormShift(a) == MantBits - BitLen(a.m)

NormM(a) == a.m * Pow2(NormShift(a))

NormE(a) == a.e - NormShift(a)

\* n shifted right by d places, a lost 1 kept in the last place.
Jam(n, d) ==
    IF d = 0 THEN n
    ELSE IF d > 30 THEN (IF n = 0 THEN 0 ELSE 1)
    ELSE LET q == n \div Pow2(d)
         IN  IF n % Pow2(d) # 0 /\ q % 2 = 0 THEN q + 1 ELSE q

\* The sum of two nonzero finite f32 as <<n, E>>, n * 2^E, with three guard
\* bits under the significand of the larger exponent.
AddWide(a, b) ==
    LET hi == IF a.e >= b.e THEN a ELSE b
        lo == IF a.e >= b.e THEN b ELSE a
    IN  <<hi.s * hi.m * 8 + lo.s * Jam(lo.m * 8, hi.e - lo.e), hi.e - 3>>

FAdd(a, b) ==
    IF a.k = "nan" \/ b.k = "nan" THEN NaN
    ELSE IF a.k = "inf" /\ b.k = "inf" THEN (IF a.s = b.s THEN a ELSE NaN)
    ELSE IF a.k = "inf" THEN a
    ELSE IF b.k = "inf" THEN b
    ELSE IF a.m = 0 /\ b.m = 0 THEN FZero(IF a.s = -1 /\ b.s = -1 THEN -1 ELSE 1)
    ELSE IF a.m = 0 THEN b
    ELSE IF b.m = 0 THEN a
    ELSE LET t == AddWide(a, b)
         IN  IF t[1] = 0 THEN FZero(1)
             ELSE RoundPack(Sign(t[1]), Abs(t[1]), t[2], FALSE)

FSub(a, b) == FAdd(a, FNeg(b))

\* The 48-bit product of two 24-bit significands as <<high, low>>,
\* high * 2^24 + low, from 12-bit halves.
MulWide(x, y) ==
    LET xh  == x \div 4096
        xl  == x % 4096
        yh  == y \div 4096
        yl  == y % 4096
        mid == xh * yl + xl * yh
        low == xl * yl + (mid % 4096) * 4096
    IN  <<xh * yh + mid \div 4096 + low \div Pow2(24), low % Pow2(24)>>

\* The product of two nonzero finite f32 as <<M, E, sticky>>: M * 2^E, and
\* whether bits were dropped below M.
MulParts(a, b) ==
    LET p == MulWide(NormM(a), NormM(b))
    IN  <<p[1] * 32 + p[2] \div Pow2(19), NormE(a) + NormE(b) + 19,
          p[2] % Pow2(19) # 0>>

FMul(a, b) ==
    IF a.k = "nan" \/ b.k = "nan" THEN NaN
    ELSE IF a.k = "inf" \/ b.k = "inf"
         THEN (IF IsZero(a) \/ IsZero(b) THEN NaN ELSE Inf(a.s * b.s))
    ELSE IF a.m = 0 \/ b.m = 0 THEN FZero(a.s * b.s)
    ELSE LET p == MulParts(a, b)
         IN  RoundPack(a.s * b.s, p[1], p[2], p[3])

\* Long division of significands x / y, seven quotient bits at a time:
\* <<floor(x * 2^28 / y), remainder>> for 2^23 <= x, y < 2^24.
RECURSIVE DivWide(_, _, _, _)
DivWide(q, r, y, steps) ==
    IF steps = 0 THEN <<q, r>>
    ELSE DivWide(q * 128 + (r * 128) \div y, (r * 128) % y, y, steps - 1)

FDiv(a, b) ==
    IF a.k = "nan" \/ b.k = "nan" THEN NaN
    ELSE IF a.k = "inf" /\ b.k = "inf" THEN NaN
    ELSE IF a.k = "inf" THEN Inf(a.s * b.s)
    ELSE IF b.k = "inf" THEN FZero(a.s * b.s)
    ELSE IF b.m = 0 THEN (IF a.m = 0 THEN NaN ELSE Inf(a.s * b.s))
    ELSE IF a.m = 0 THEN FZero(a.s * b.s)
    ELSE LET x  == NormM(a)
             y  == NormM(b)
             qr == DivWide(x \div y, x % y, y, 4)
         IN  RoundPack(a.s * b.s, qr[1], NormE(a) - NormE(b) - 28, qr[2] # 0)

\* The literal n/d written in decimal (0.5, 0.7, 0.3): the f32 nearest to it.
Lit(n, d) == FDiv(Num(n), Num(d))

\* a < b; FALSE when either side is NaN; the two zeros are equal.
FLt(a, b) ==
    IF a.k = "nan" \/ b.k = "nan" THEN FALSE
    ELSE IF a.k = "inf" THEN a.s < 0 /\ ~(b.k = "inf" /\ b.s < 0)
    ELSE IF b.k = "inf" THEN b.s > 0
    ELSE IF a.m = 0 THEN b.m # 0 /\ b.s > 0
    ELSE IF b.m = 0 THEN a.s < 0
    ELSE IF a.s # b.s THEN a.s < b.s
    ELSE IF a.s > 0 THEN a.e < b.e \/ (a.e = b.e /\ a.m < b.m)
    ELSE b.e < a.e \/ (a.e = b.e /\ b.m < a.m)

FGt(a, b) == FLt(b, a)

FLe(a, b) == a.k # "nan" /\ b.k # "nan" /\ ~FLt(b, a)

\* a == b; FALSE when either side is NaN; the two zeros are equal.
FEq(a, b) == FLe(a, b) /\ FLe(b, a)

\* f32::max: when one argument is NaN the other is returned.
FMax(a, b) ==
    IF a.k = "nan" THEN b
    ELSE IF b.k = "nan" THEN a
    ELSE IF FLt(a, b) THEN b ELSE a

\* f32::clamp: a NaN receiver stays NaN.
FClamp(x, lo, hi) ==
    IF FLt(x, lo) THEN lo
    ELSE IF FGt(x, hi) THEN hi
    ELSE x

\* Largest r in lo..hi with r * r <= n, by bisection (lo * lo <= n < (hi+1)^2).
RECURSIVE ISqrtIn(_, _, _)
ISqrtIn(n, lo, hi) ==
    IF lo = hi THEN lo
    ELSE LET mid == (lo + hi + 1) \div 2
         IN  IF mid * mid <= n THEN ISqrtIn(n, mid, hi) ELSE ISqrtIn(n, lo, mid - 1)

\* floor(sqrt(n)) for 0 <= n < 2^25
ISqrt(n) == ISqrtIn(n, 0, 5792)

\* Digit-by-digit square root: from root = floor(sqrt(n)) and rem = n - root^2
\* to <<floor(sqrt(n * 4^steps)), remainder>>.
RECURSIVE SqrtWide(_, _, _)
SqrtWide(root, rem, steps) ==
    IF steps = 0 THEN <<root, rem>>
    ELSE LET trial == 4 * root + 1
         IN  IF 4 * rem >= trial
             THEN SqrtWide(2 * root + 1, 4 * rem - trial, steps - 1)
             ELSE SqrtWide(2 * root, 4 * rem, steps - 1)

\* f32::sqrt: correctly rounded; NaN below zero, -0.0 for -0.0.
FSqrt(a) ==
    IF a.k = "nan" THEN NaN
    ELSE IF a.k = "inf" THEN (IF a.s > 0 THEN PInf ELSE NaN)
    ELSE IF a.m = 0 THEN a
    ELSE IF a.s < 0 THEN NaN
    ELSE LET odd == NormE(a) % 2 = 1
             n   == IF odd THEN 2 * NormM(a) ELSE NormM(a)
             e   == IF odd THEN NormE(a) - 1 ELSE NormE(a)
             r0  == ISqrt(n)
             rr  == SqrtWide(r0, n - r0 * r0, 14)
         IN  RoundPack(1, rr[1], (e \div 2) - 14, rr[2] # 0)

(***************************************************************************)
(* Vec3                                                                    *)
(***************************************************************************)
Vec3_new(x, y, z) == [x |-> x, y |-> y, z |-> z]

Vec3_default == Vec3_new(Zero, Zero, Zero)

Vec3_add(a, b) == Vec3_new(FAdd(a.x, b.x), FAdd(a.y, b.y), FAdd(a.z, b.z))

Vec3_sub(a, b) == Vec3_new(FSub(a.x, b.x), FSub(a.y, b.y), FSub(a.z, b.z))

Vec3_mul(a, k) == Vec3_new(FMul(a.x, k), FMul(a.y, k), FMul(a.z, k))

Vec3_cross(a, b) ==
    Vec3_new(FSub(FMul(a.y, b.z), FMul(a.z, b.y)),
             FSub(FMul(a.z, b.x), FMul(a.x, b.z)),
             FSub(FMul(a.x, b.y), FMul(a.y, b.x)))

Vec3_length(a) ==
    FSqrt(FAdd(FAdd(FMul(a.x, a.x), FMul(a.y, a.y)), FMul(a.z, a.z)))

\* ContactAggregate::default()
ContactAggregate_default ==
    [total_force      |-> Vec3_default,
     total_torque     |-> Vec3_default,
     average_position |-> Vec3_default,
     contact_area     |-> Zero,
     max_pressure     |-> Zero,
     weighted_grip    |-> Zero]

(***************************************************************************)
(* Bounds and input domains                                                *)
(***************************************************************************)
\* Largest contact count handed to tire_aggregate_contacts.
MaxCount == 2

\* Number of simulation ticks of the wear/thermal stepper.
MaxTicks == 2

PointSet == {Vec3_new(Num(1), Zero, Zero), Vec3_new(Zero, Num(-1), Num(2))}

NormalSet == {Vec3_new(Zero, One, Zero), Vec3_new(Num(1), Num(2), Num(2))}

ForceSet == {Zero, Num(2), Num(-2), NaN}

GripSet == {Lit(1, 2), Num(2)}

OriginSet == {Vec3_new(Num(1), Zero, Zero)}

StiffnessSet == {Lit(1, 2), Num(4)}

\* A raw pointer argument: null, or the address of an array of `n` elements.
NullPtr == [null |-> TRUE, elems |-> << >>]

Ptrs(S, n) == {NullPtr} \cup {[null |-> FALSE, elems |-> e] : e \in [1..n -> S]}

(***************************************************************************)
(* State                                                                   *)
(***************************************************************************)
VARIABLES
    \* tire_aggregate_contacts: arguments
    points_ptr, normals_ptr, forces_ptr, grips_ptr, count, global_origin, stiffness,
    \* tire_aggregate_contacts: position, loop index and locals
    pc, i, total_force, total_torque, average_position, contact_area,
    max_pressure, force_magnitude, weighted_grip,
    \* array elements read so far, as <<array, index>> (indices from 0)
    reads,
    \* the ContactAggregate returned
    aggregate,
    \* caller of tire_step_wear_and_temperature: the last input record, the
    \* last output record and the number of ticks run
    input, output, tick

aggArgs == <<points_ptr, normals_ptr, forces_ptr, grips_ptr, count, global_origin, stiffness>>

aggLocals == <<i, total_force, total_torque, average_position, contact_area,
               max_pressure, force_magnitude, weighted_grip>>

aggVars == <<aggArgs, pc, aggLocals, reads, aggregate>>

wearVars == <<input, output, tick>>

vars == <<aggVars, wearVars>>

(***************************************************************************)
(* tire_aggregate_contacts                                                 *)
(***************************************************************************)
\* EarlyReturn without the `count == 0` test.
EarlyReturn_NoCountTest(pp, np, fp, gp, c) ==
    pp.null \/ np.null \/ fp.null \/ gp.null

\* The precondition check: a null pointer or an empty contact set.
EarlyReturn(pp, np, fp, gp, c) ==
    pp.null \/ np.null \/ fp.null \/ gp.null \/ c = 0

\* let s = stiffness.max(1.0)
StiffnessFloor(k) == FMax(k, One)

\* Element `idx` (from 0) of the array behind a pointer.
At(ptr, idx) == ptr.elems[idx + 1]

\* GripForce with grip on the second and third axes instead.
GripForce_FirstAxisFree(force_dir, grip) ==
    Vec3_new(force_dir.x, FMul(force_dir.y, grip), FMul(force_dir.z, grip))

\* First pass: the grip-scaled force of one contact.
GripForce(force_dir, grip) ==
    Vec3_new(FMul(force_dir.x, grip), force_dir.y, FMul(force_dir.z, grip))

\* MaxPressureStep keeping the latest force instead of the largest.
MaxPressureStep_Latest(mp, force) == force

\* First pass: max_pressure = max_pressure.max(forces[i])
MaxPressureStep(mp, force) == FMax(mp, force)

\* ShearForce with the first pass's axis-wise grip.
ShearForce_AxisWise(normal, force, grip) ==
    Vec3_new(FMul(FMul(normal.x, force), grip),
             FMul(normal.y, force),
             FMul(FMul(normal.z, force), grip))

\* Second pass: the shear force of one contact.
ShearForce(normal, force, grip) == Vec3_mul(normal, FMul(force, grip))

\* WeightedGripInit without the default of 1.
WeightedGripInit_NoDefault(fm) == Zero

\* weighted_grip before the third pass, from the length of total_force.
WeightedGripInit(fm) == IF FGt(fm, Zero) THEN Zero ELSE One

Call ==
    /\ pc = "idle"
    /\ \E c \in 0..MaxCount :
       \E pp \in Ptrs(PointSet, c), np \in Ptrs(NormalSet, c),
          fp \in Ptrs(ForceSet, c), gp \in Ptrs(GripSet, c),
          o \in OriginSet, k \in StiffnessSet :
          /\ points_ptr' = pp
          /\ normals_ptr' = np
          /\ forces_ptr' = fp
          /\ grips_ptr' = gp
          /\ count' = c
          /\ global_origin' = o
          /\ stiffness' = k
          /\ IF EarlyReturn(pp, np, fp, gp, c)
             THEN /\ aggregate' = ContactAggregate_default
                  /\ pc' = "ret"
                  /\ UNCHANGED <<aggLocals, reads>>
             ELSE /\ total_force' = Vec3_default
                  /\ total_torque' = Vec3_default
                  /\ average_position' = Vec3_default
                  /\ contact_area' = Zero
                  /\ max_pressure' = Zero
                  /\ i' = 0
                  /\ pc' = "pass1"
                  /\ UNCHANGED <<force_magnitude, weighted_grip, reads, aggregate>>
    /\ UNCHANGED wearVars

Pass1 ==
    /\ pc = "pass1"
    /\ IF i < count
       THEN LET force_dir == Vec3_mul(At(normals_ptr, i), At(forces_ptr, i))
                grip_force == GripForce(force_dir, At(grips_ptr, i))
            IN  /\ total_force' = Vec3_add(total_force, grip_force)
                /\ average_position' = Vec3_add(average_position, At(points_ptr, i))
                /\ contact_area' =
                       FAdd(contact_area,
                            FDiv(At(forces_ptr, i), StiffnessFloor(stiffness)))
                /\ max_pressure' = MaxPressureStep(max_pressure, At(forces_ptr, i))
                /\ reads' = reads \cup {<<"normals", i>>, <<"forces", i>>,
                                        <<"grips", i>>, <<"points", i>>}
                /\ i' = i + 1
                /\ UNCHANGED pc
       ELSE /\ average_position' =
                   Vec3_mul(average_position, FDiv(One, Num(count)))
            /\ i' = 0
            /\ pc' = "pass2"
            /\ UNCHANGED <<total_force, contact_area, max_pressure, reads>>
    /\ UNCHANGED <<aggArgs, total_torque, force_magnitude, weighted_grip, aggregate>>
    /\ UNCHANGED wearVars

Pass2 ==
    /\ pc = "pass2"
    /\ IF i < count
       THEN LET lever_arm == Vec3_sub(At(points_ptr, i), global_origin)
                force_dir == ShearForce(At(normals_ptr, i), At(forces_ptr, i),
                                        At(grips_ptr, i))
            IN  /\ total_torque' = Vec3_add(total_torque, Vec3_cross(lever_arm, force_dir))
                /\ reads' = reads \cup {<<"normals", i>>, <<"forces", i>>,
                                        <<"grips", i>>, <<"points", i>>}
                /\ i' = i + 1
                /\ UNCHANGED <<pc, force_magnitude, weighted_grip>>
       ELSE LET fm == Vec3_length(total_force)
            IN  /\ force_magnitude' = fm
                /\ weighted_grip' = WeightedGripInit(fm)
                /\ i' = 0
                /\ pc' = IF FGt(fm, Zero) THEN "pass3" ELSE "build"
                /\ UNCHANGED <<total_torque, reads>>
    /\ UNCHANGED <<aggArgs, total_force, average_position, contact_area,
                   max_pressure, aggregate>>
    /\ UNCHANGED wearVars

Pass3 ==
    /\ pc = "pass3"
    /\ IF i < count
       THEN /\ weighted_grip' =
                   FAdd(weighted_grip,
                        FMul(At(grips_ptr, i), FDiv(At(forces_ptr, i), force_magnitude)))
            /\ reads' = reads \cup {<<"forces", i>>, <<"grips", i>>}
            /\ i' = i + 1
            /\ UNCHANGED pc
       ELSE /\ pc' = "build"
            /\ UNCHANGED <<i, weighted_grip, reads>>
    /\ UNCHANGED <<aggArgs, total_force, total_torque, average_position,
                   contact_area, max_pressure, force_magnitude, aggregate>>
    /\ UNCHANGED wearVars

Return ==
    /\ pc = "build"
    /\ aggregate' = [total_force      |-> total_force,
                     total_torque     |-> total_torque,
                     average_position |-> average_position,
                     contact_area     |-> contact_area,
                     max_pressure     |-> max_pressure,
                     weighted_grip    |-> weighted_grip]
    /\ pc' = "ret"
    /\ UNCHANGED <<aggArgs, aggLocals, reads>>
    /\ UNCHANGED wearVars

(***************************************************************************)
(* tire_step_wear_and_temperature                                          *)
(***************************************************************************)
TenThousand == Num(10000)

\* 1.0 + slip * a + slip_angle * b
SlipFactor(slip, slip_angle, a, b) ==
    FAdd(FAdd(One, FMul(slip, Num(a))), FMul(slip_angle, Num(b)))

\* wear_rate after both multiplications.
WearRate(in) ==
    FMul(FMul(in.base_wear_rate,
              SlipFactor(in.wheel_slip_ratio, FAbs(in.wheel_slip_angle), 5, 3)),
         FDiv(in.max_pressure, TenThousand))

\* WearSum subtracting the worn amount.
WearSum_Minus(cur, rate, delta) == FSub(cur, FMul(rate, delta))

\* current_tire_wear + wear_rate * delta
WearSum(cur, rate, delta) == FAdd(cur, FMul(rate, delta))

\* FiniteOrZero without the is_finite test.
FiniteOrZero_Unchecked(w) == w

\* if !tire_wear.is_finite() { tire_wear = 0.0 }
FiniteOrZero(w) == IF ~IsFinite(w) THEN Zero ELSE w

\* heat_generation after both multiplications.
HeatGeneration(in) ==
    FMul(FMul(in.base_heat_generation,
              SlipFactor(in.wheel_slip_ratio, FAbs(in.wheel_slip_angle), 3, 2)),
         FDiv(in.total_force_magnitude, TenThousand))

\* Share of the generated heat routed to the surface node and to the core node.
SurfaceHeat(h) == FMul(h, Lit(7, 10))

CoreHeat(h) == FMul(h, Lit(3, 10))

\* Cooling from the surface temperature of the input record, before this
\* tick's heat is added.
Cooling_BeforeHeat(in, heated_surface) ==
    FMul(in.cooling_rate, FSub(in.ambient_temperature, in.surface_temperature))

\* Cooling with the temperature difference taken the other way round.
Cooling_Reversed(in, heated_surface) ==
    FMul(in.cooling_rate, FSub(heated_surface, in.ambient_temperature))

\* let cooling = cooling_rate * (ambient_temperature - surface_temperature),
\* where `heated_surface` is the local surface_temperature at that line.
Cooling(in, heated_surface) ==
    FMul(in.cooling_rate, FSub(in.ambient_temperature, heated_surface))

tire_step_wear_and_temperature(in) ==
    LET clamped == FClamp(WearSum(in.current_tire_wear, WearRate(in), in.delta),
                          Zero, One)
        heat_generation == HeatGeneration(in)
        surface0 == FAdd(in.surface_temperature,
                         FMul(SurfaceHeat(heat_generation), in.delta))
        core0 == FAdd(in.core_temperature,
                      FMul(CoreHeat(heat_generation), in.delta))
        cooling == Cooling(in, surface0)
    IN  [tire_wear           |-> FiniteOrZero(clamped),
         surface_temperature |-> FAdd(surface0, FMul(cooling, in.delta)),
         core_temperature    |-> FAdd(core0, FMul(FMul(cooling, Lit(1, 2)), in.delta))]

WearStepInput_default ==
    [wheel_slip_ratio      |-> Zero,
     wheel_slip_angle      |-> Zero,
     max_pressure          |-> Zero,
     total_force_magnitude |-> Zero,
     current_tire_wear     |-> Zero,
     base_wear_rate        |-> Zero,
     base_heat_generation  |-> Zero,
     cooling_rate          |-> Zero,
     ambient_temperature   |-> Zero,
     surface_temperature   |-> Zero,
     core_temperature      |-> Zero,
     delta                 |-> Zero]

WearStepOutput_default ==
    [tire_wear |-> Zero, surface_temperature |-> Zero, core_temperature |-> Zero]

\* Per-tick inputs the caller supplies.
SlipRatioSet == {Lit(1, 2)}

SlipAngleSet == {Num(-1), PInf, NaN}

PressureSet == {Zero, TenThousand}

ForceMagnitudeSet == {TenThousand}

WearRateSet == {Lit(1, 16), Lit(-1, 16)}

HeatGenerationSet == {Zero, Num(10)}

CoolingRateSet == {Lit(1, 2), Num(2)}

AmbientSet == {Num(20)}

DeltaSet == {Lit(1, 2)}

\* The tire state the caller starts from.
InitialWearSet == {Lit(1, 2), Num(2), PInf, NaN}

InitialSurfaceSet == {Num(60), Num(134217728)}

InitialCoreSet == {Num(50)}

\* One simulation tick: the caller feeds the previous output back as the
\* current wear and temperatures and calls the stepper.
Tick ==
    /\ tick < MaxTicks
    /\ \E sr \in SlipRatioSet, sa \in SlipAngleSet, mp \in PressureSet,
          fm \in ForceMagnitudeSet, wr \in WearRateSet, hg \in HeatGenerationSet,
          cr \in CoolingRateSet, amb \in AmbientSet, dt \in DeltaSet :
          LET in == [wheel_slip_ratio      |-> sr,
                     wheel_slip_angle      |-> sa,
                     max_pressure          |-> mp,
                     total_force_magnitude |-> fm,
                     current_tire_wear     |-> output.tire_wear,
                     base_wear_rate        |-> wr,
                     base_heat_generation  |-> hg,
                     cooling_rate          |-> cr,
                     ambient_temperature   |-> amb,
                     surface_temperature   |-> output.surface_temperature,
                     core_temperature      |-> output.core_temperature,
                     delta                 |-> dt]
          IN  /\ input' = in
              /\ output' = tire_step_wear_and_temperature(in)
    /\ tick' = tick + 1
    /\ UNCHANGED aggVars

(***************************************************************************)
(* Specifications                                                          *)
(***************************************************************************)
AggIdle ==
    /\ points_ptr = NullPtr
    /\ normals_ptr = NullPtr
    /\ forces_ptr = NullPtr
    /\ grips_ptr = NullPtr
    /\ count = 0
    /\ global_origin = Vec3_default
    /\ stiffness = Zero
    /\ pc = "idle"
    /\ i = 0
    /\ total_force = Vec3_default
    /\ total_torque = Vec3_default
    /\ average_position = Vec3_default
    /\ contact_area = Zero
    /\ max_pressure = Zero
    /\ force_magnitude = Zero
    /\ weighted_grip = Zero
    /\ reads = {}
    /\ aggregate = ContactAggregate_default

InitAggregate ==
    /\ AggIdle
    /\ input = WearStepInput_default
    /\ output = WearStepOutput_default
    /\ tick = 0

NextAggregate == Call \/ Pass1 \/ Pass2 \/ Pass3 \/ Return

SpecAggregate == InitAggregate /\ [][NextAggregate]_vars

InitWear ==
    /\ AggIdle
    /\ input = WearStepInput_default
    /\ \E w \in InitialWearSet, st \in InitialSurfaceSet, ct \in InitialCoreSet :
          output = [tire_wear |-> w, surface_temperature |-> st, core_temperature |-> ct]
    /\ tick = 0

NextWear == Tick

SpecWear == InitWear /\ [][NextWear]_vars

(***************************************************************************)
(* Properties of tire_aggregate_contacts (under SpecAggregate)             *)
(***************************************************************************)
\* Sum of f[0] .. f[n-1], accumulated from 0 in index order.
RECURSIVE SumTo(_, _)
SumTo(f, n) == IF n = 0 THEN Zero ELSE FAdd(SumTo(f, n - 1), f[n - 1])

RECURSIVE VecSumTo(_, _)
VecSumTo(f, n) == IF n = 0 THEN Vec3_default ELSE Vec3_add(VecSumTo(f, n - 1), f[n - 1])

Idx == 0..(count - 1)

Returned == pc = "ret"

NullOrEmpty ==
    points_ptr.null \/ normals_ptr.null \/ forces_ptr.null \/ grips_ptr.null \/ count = 0

\* The call returned the aggregate of a non-empty contact set.
ReturnedContacts == Returned /\ ~NullOrEmpty

Normal(j) == normals_ptr.elems[j + 1]

Point(j) == points_ptr.elems[j + 1]

Force(j) == forces_ptr.elems[j + 1]

Grip(j) == grips_ptr.elems[j + 1]

\* Every component is +0.0 or -0.0.
IsZeroVec(v) == IsZero(v.x) /\ IsZero(v.y) /\ IsZero(v.z)

\* C1: whenever a pointer is null or count is 0, the call returns the all-zero
\* aggregate, whatever the other arguments are, and has read no array element.
C1_NullOrEmptyReturnsZero ==
    (Returned /\ NullOrEmpty) =>
        /\ IsZeroVec(aggregate.total_force)
        /\ IsZeroVec(aggregate.total_torque)
        /\ IsZeroVec(aggregate.average_position)
        /\ aggregate.contact_area = Zero
        /\ aggregate.max_pressure = Zero
        /\ aggregate.weighted_grip = Zero
        /\ aggregate = ContactAggregate_default
        /\ reads = {}

\* C1 witness: a null point buffer with count > 0 and the other buffers filled.
C1_Witness ==
    /\ Returned
    /\ points_ptr.null /\ count > 0
    /\ ~normals_ptr.null /\ ~forces_ptr.null /\ ~grips_ptr.null
    /\ \E j \in Idx : ~IsZero(Force(j))

\* C1 second case: count = 0 with four non-null pointers also returns zero.
C1_EmptyCase ==
    Returned /\ count = 0 /\ ~points_ptr.null /\ ~normals_ptr.null
             /\ ~forces_ptr.null /\ ~grips_ptr.null

\* C4 as stated: the x component of total_force carries no grip factor, the y
\* and z components carry it.
C4_AsStated ==
    ReturnedContacts =>
        /\ aggregate.total_force.x =
               SumTo([j \in Idx |-> FMul(Normal(j).x, Force(j))], count)
        /\ aggregate.total_force.y =
               SumTo([j \in Idx |-> FMul(FMul(Normal(j).y, Force(j)), Grip(j))], count)
        /\ aggregate.total_force.z =
               SumTo([j \in Idx |-> FMul(FMul(Normal(j).z, Force(j)), Grip(j))], count)

\* C4 amended: the second (y) component of total_force is the sum of
\* normal_i.y * force_i with no grip factor; the x and z components are the sums
\* of normal_i.x * force_i * grip_i and normal_i.z * force_i * grip_i.
C4_GripOnXAndZ ==
    ReturnedContacts =>
        /\ aggregate.total_force.x =
               SumTo([j \in Idx |-> FMul(FMul(Normal(j).x, Force(j)), Grip(j))], count)
        /\ aggregate.total_force.y =
               SumTo([j \in Idx |-> FMul(Normal(j).y, Force(j))], count)
        /\ aggregate.total_force.z =
               SumTo([j \in Idx |-> FMul(FMul(Normal(j).z, Force(j)), Grip(j))], count)

\* C4 witness: a contact whose normal has three non-zero components, with a
\* non-zero force and a grip other than 1.
C4_Witness ==
    /\ ReturnedContacts
    /\ \E j \in Idx :
          /\ ~IsZero(Normal(j).x) /\ ~IsZero(Normal(j).y) /\ ~IsZero(Normal(j).z)
          /\ IsFinite(Force(j)) /\ ~IsZero(Force(j))
          /\ Grip(j) # One

\* The sum of grip_i * (force_i / len) over the contacts, in index order.
GripSum(len) == SumTo([j \in Idx |-> FMul(Grip(j), FDiv(Force(j), len))], count)

\* C5 as stated: weighted_grip is 1 when the length of total_force is 0, whatever
\* the grips are; otherwise it is the unclamped sum of grip_i * force_i / |total_force|.
C5_AsStated ==
    ReturnedContacts =>
        LET len == Vec3_length(aggregate.total_force)
        IN  IF IsZero(len)
            THEN aggregate.weighted_grip = One
            ELSE aggregate.weighted_grip = GripSum(len)

\* C5 amended: weighted_grip is the unclamped sum of grip_i * force_i / |total_force|
\* when the length of total_force is greater than 0; it is 1 when the length is
\* 0 and also when the length is NaN, whatever the grips are.
C5_WeightedGrip ==
    ReturnedContacts =>
        LET len == Vec3_length(aggregate.total_force)
        IN  /\ FGt(len, Zero) => aggregate.weighted_grip = GripSum(len)
            /\ (IsZero(len) \/ IsNaN(len)) => aggregate.weighted_grip = One
            /\ FGt(len, Zero) \/ IsZero(len) \/ IsNaN(len)

\* C5 witness: non-zero forces whose contributions cancel, with grips other than 1.
C5_Witness ==
    /\ ReturnedContacts
    /\ IsZeroVec(aggregate.total_force)
    /\ \A j \in Idx : ~IsZero(Force(j)) /\ Grip(j) # One
    /\ aggregate.weighted_grip = One

\* C5 further cases: the sum exceeds 1, the sum is negative, and a NaN force
\* makes the length NaN.
C5_NaNLength ==
    /\ ReturnedContacts
    /\ IsNaN(Vec3_length(aggregate.total_force))
    /\ \E j \in Idx : Grip(j) # One

C5_ExceedsOne == ReturnedContacts /\ FGt(aggregate.weighted_grip, One)

C5_Negative == ReturnedContacts /\ FLt(aggregate.weighted_grip, Zero)

\* C6 as stated: max_pressure is the largest force_i.
C6_AsStated ==
    ReturnedContacts =>
        /\ \E j \in Idx : aggregate.max_pressure = Force(j)
        /\ \A j \in Idx : FLe(Force(j), aggregate.max_pressure)

\* C6 amended: max_pressure is the largest of 0 and the force_i, a NaN force_i
\* skipped, so it is 0 when every force_i is negative.
C6_MaxOfZeroAndForces ==
    ReturnedContacts =>
        /\ aggregate.max_pressure = Zero \/ \E j \in Idx : aggregate.max_pressure = Force(j)
        /\ FLe(Zero, aggregate.max_pressure)
        /\ \A j \in Idx : IsNaN(Force(j)) \/ FLe(Force(j), aggregate.max_pressure)

\* C6 witness: the largest force is positive and is not the last contact's.
C6_Witness ==
    /\ ReturnedContacts
    /\ count >= 2
    /\ FGt(aggregate.max_pressure, Zero)
    /\ FLt(Force(count - 1), aggregate.max_pressure)

\* The shear force of contact j and the torque it contributes.
Shear(j) == Vec3_mul(Normal(j), FMul(Force(j), Grip(j)))

TorqueSum ==
    VecSumTo([j \in Idx |-> Vec3_cross(Vec3_sub(Point(j), global_origin), Shear(j))],
             count)

IsFiniteVec(v) == IsFinite(v.x) /\ IsFinite(v.y) /\ IsFinite(v.z)

\* C7 as stated: total_torque is the sum of (point_i - origin) x (normal_i *
\* force_i * grip_i), grip on all three axes; it is zero when every point is the
\* origin; and it is still zero while the first pass runs.
C7_AsStated ==
    /\ ReturnedContacts =>
          /\ aggregate.total_torque = TorqueSum
          /\ (\A j \in Idx : Point(j) = global_origin) => IsZeroVec(aggregate.total_torque)
    /\ pc = "pass1" => IsZeroVec(total_torque)

\* C7 amended: total_torque is that sum and is still zero while the first pass
\* runs; when every point is the (finite) origin it is the zero vector if every
\* shear force is finite, and has a NaN component otherwise.
C7_Torque ==
    /\ ReturnedContacts =>
          /\ aggregate.total_torque = TorqueSum
          /\ (\A j \in Idx : Point(j) = global_origin /\ IsFiniteVec(Point(j))) =>
                IF \A j \in Idx : IsFiniteVec(Shear(j))
                THEN IsZeroVec(aggregate.total_torque)
                ELSE \/ IsNaN(aggregate.total_torque.x)
                     \/ IsNaN(aggregate.total_torque.y)
                     \/ IsNaN(aggregate.total_torque.z)
    /\ pc = "pass1" => IsZeroVec(total_torque)

\* C7 witness: a non-zero torque from a contact with a non-zero force along an
\* axis the first pass leaves free of grip, and a grip other than 1.
C7_Witness ==
    /\ ReturnedContacts
    /\ IsFiniteVec(aggregate.total_torque) /\ ~IsZeroVec(aggregate.total_torque)
    /\ \E j \in Idx : ~IsZero(Normal(j).y) /\ ~IsZero(Force(j)) /\ Grip(j) # One
                      /\ Point(j) # global_origin

\* C7 further case: every contact point is the origin and forces are non-zero.
C7_AtOrigin ==
    /\ ReturnedContacts
    /\ \A j \in Idx : Point(j) = global_origin /\ ~IsZero(Force(j))
    /\ IsZeroVec(aggregate.total_torque)

\* C7 further case: a NaN force at the origin.
C7_NaNAtOrigin ==
    /\ ReturnedContacts
    /\ \A j \in Idx : Point(j) = global_origin
    /\ \E j \in Idx : IsNaN(Force(j))

(***************************************************************************)
(* Properties of tire_step_wear_and_temperature (under SpecWear)           *)
(***************************************************************************)
Stepped == tick > 0

NonNegative(a) == FLe(Zero, a)

InUnitRange(a) == FLe(Zero, a) /\ FLe(a, One)

\* C2: the returned wear is a finite number in [0,1] for every input, a
\* non-finite clamped wear is returned as 0, and so wear fed back from tick to
\* tick stays in [0,1].
C2_WearFiniteInUnitRange ==
    Stepped =>
        /\ IsFinite(output.tire_wear)
        /\ InUnitRange(output.tire_wear)
        /\ LET sum == FAdd(input.current_tire_wear, FMul(WearRate(input), input.delta))
           IN  ~IsFinite(FClamp(sum, Zero, One)) => output.tire_wear = Zero
        /\ tick > 1 => InUnitRange(input.current_tire_wear)

\* C2 witness: on a later tick, with wear fed back, a NaN slip angle makes the
\* clamped wear NaN and the call returns 0.
C2_Witness ==
    /\ tick > 1
    /\ IsNaN(input.wheel_slip_angle)
    /\ FGt(input.current_tire_wear, Zero)
    /\ output.tire_wear = Zero

\* C2 further case: the first call is handed a wear outside [0,1].
C2_OutOfRangeInput ==
    /\ tick = 1
    /\ ~InUnitRange(input.current_tire_wear)
    /\ FLt(input.base_wear_rate, Zero)

\* C8: H = base_heat_generation * (1 + 3*slip_ratio + 2*|slip_angle|) *
\* total_force_magnitude/10000; the surface gets 0.7*H*delta and the core
\* 0.3*H*delta; one cooling term cooling_rate * (ambient - heated surface) is then
\* applied times delta to the surface and at half that amount to the core; the
\* core temperature input has no influence on the cooling term. Every product
\* and sum is an f32 operation, taken in the order the function evaluates it.
C8_TwoNodeUpdate ==
    Stepped =>
        LET factor == FAdd(FAdd(One, FMul(input.wheel_slip_ratio, Num(3))),
                           FMul(FAbs(input.wheel_slip_angle), Num(2)))
            H == FMul(FMul(input.base_heat_generation, factor),
                      FDiv(input.total_force_magnitude, Num(10000)))
            toSurface == FMul(FMul(H, Lit(7, 10)), input.delta)
            toCore == FMul(FMul(H, Lit(3, 10)), input.delta)
            heated == FAdd(input.surface_temperature, toSurface)
            cooling == FMul(input.cooling_rate, FSub(input.ambient_temperature, heated))
            halfCooling == FMul(cooling, Lit(1, 2))
            other == [input EXCEPT !.core_temperature = FAdd(input.core_temperature, Num(7))]
        IN  /\ output.surface_temperature = FAdd(heated, FMul(cooling, input.delta))
            /\ output.core_temperature =
                   FAdd(FAdd(input.core_temperature, toCore),
                        FMul(halfCooling, input.delta))
            /\ tire_step_wear_and_temperature(other).surface_temperature
                   = output.surface_temperature
            /\ tire_step_wear_and_temperature(other).core_temperature
                   = FAdd(FAdd(other.core_temperature, toCore),
                          FMul(halfCooling, input.delta))

\* C8 witness: heat is generated and the heated surface differs from ambient.
C8_Witness ==
    /\ tick > 1
    /\ IsFinite(HeatGeneration(input)) /\ FGt(HeatGeneration(input), Zero)
    /\ IsFinite(output.surface_temperature)
    /\ output.surface_temperature # input.surface_temperature
    /\ output.core_temperature # input.core_temperature
    /\ input.core_temperature # input.surface_temperature

\* The precondition C9 states: wear in [0,1] and non-negative base wear rate,
\* peak pressure, slip ratio and delta; nothing asked of the slip angle.
C9_Pre ==
    /\ Stepped
    /\ InUnitRange(input.current_tire_wear)
    /\ NonNegative(input.base_wear_rate)
    /\ NonNegative(input.max_pressure)
    /\ NonNegative(input.wheel_slip_ratio)
    /\ NonNegative(input.delta)

\* C9 as stated: under C9_Pre, for any slip angle, the returned wear is at least
\* the current wear.
C9_AsStated == C9_Pre => FLe(input.current_tire_wear, output.tire_wear)

\* C9 amended: under C9_Pre, when wear_rate * delta is a number (not NaN), the
\* returned wear is at least the current wear, and wear that has reached 1 stays
\* at 1; when wear_rate * delta is NaN (a NaN slip angle, or an infinite factor
\* times zero) the returned wear is 0.
C9_WearMonotoneUnlessNaN ==
    LET worn == FMul(WearRate(input), input.delta)
    IN  /\ (C9_Pre /\ ~IsNaN(worn)) =>
              /\ FLe(input.current_tire_wear, output.tire_wear)
              /\ input.current_tire_wear = One => output.tire_wear = One
        /\ (Stepped /\ IsNaN(worn)) => output.tire_wear = Zero

\* C9 witness: on a later tick, with wear fed back and finite inputs, wear grows.
C9_Witness ==
    /\ tick > 1
    /\ C9_Pre
    /\ IsFinite(input.wheel_slip_angle)
    /\ FGt(input.current_tire_wear, Zero)
    /\ FGt(output.tire_wear, input.current_tire_wear)

\* C9 further case: wear at 1 stays at 1 under a positive wear rate.
C9_Saturated ==
    /\ tick > 1 /\ C9_Pre /\ IsFinite(input.wheel_slip_angle)
    /\ input.current_tire_wear = One /\ output.tire_wear = One
    /\ FGt(WearRate(input), Zero)

\* The precondition C10 states: a zero base heat generation or a zero force
\* magnitude, and 0 <= cooling_rate * delta <= 1.
C10_Pre ==
    /\ Stepped
    /\ IsZero(input.base_heat_generation) \/ IsZero(input.total_force_magnitude)
    /\ InUnitRange(FMul(input.cooling_rate, input.delta))

Between(a, x, b) == (FLe(a, x) /\ FLe(x, b)) \/ (FLe(b, x) /\ FLe(x, a))

\* Whether RoundPack(s, M, E, sticky) is the exact value: nothing rounded off,
\* no overflow.
RoundsExactly(M, E, sticky) ==
    IF M = 0 THEN ~sticky
    ELSE LET nb == BitLen(M)
             e0 == E + nb - MantBits
             e1 == IF e0 < EMin THEN EMin ELSE e0
             sh == e1 - E
         IN  /\ ~sticky
             /\ e1 <= EMax
             /\ sh <= 0 \/ (sh <= nb /\ M % Pow2(sh) = 0)

\* Whether a + b and a * b are f32 operations that round nothing off.
AddIsExact(a, b) ==
    /\ IsFinite(a) /\ IsFinite(b)
    /\ a.m = 0 \/ b.m = 0 \/ RoundsExactly(Abs(AddWide(a, b)[1]), AddWide(a, b)[2], FALSE)

MulIsExact(a, b) ==
    /\ IsFinite(a) /\ IsFinite(b)
    /\ a.m = 0 \/ b.m = 0
          \/ RoundsExactly(MulParts(a, b)[1], MulParts(a, b)[2], MulParts(a, b)[3])

\* The generated heat is 0 (and not NaN), the temperatures are finite, and no
\* operation of the cooling update rounds: cooling_rate * delta, ambient -
\* surface, cooling_rate * that, times delta, and the final sum.
C10_ExactCooling ==
    LET s0 == input.surface_temperature
        d == FSub(input.ambient_temperature, s0)
        c == FMul(input.cooling_rate, d)
    IN  /\ IsZero(HeatGeneration(input))
        /\ IsFinite(s0) /\ IsFinite(input.ambient_temperature)
        /\ MulIsExact(input.cooling_rate, input.delta)
        /\ AddIsExact(input.ambient_temperature, FNeg(s0))
        /\ MulIsExact(input.cooling_rate, d)
        /\ MulIsExact(c, input.delta)
        /\ AddIsExact(s0, FMul(c, input.delta))

\* C10 as stated: under C10_Pre the returned surface temperature lies between the
\* input surface temperature and ambient.
C10_AsStated ==
    C10_Pre => Between(input.surface_temperature, output.surface_temperature,
                       input.ambient_temperature)

\* C10 amended: under C10_Pre, when the generated heat evaluates to 0 (not NaN),
\* the input surface and ambient temperatures are finite and the f32 operations
\* of the cooling update round nothing off, the returned surface temperature
\* lies between the input surface temperature and ambient, and its distance to
\* ambient does not grow.
C10_SurfaceRelaxesWhenExact ==
    (C10_Pre /\ C10_ExactCooling) =>
        LET s0 == input.surface_temperature
            s1 == output.surface_temperature
            amb == input.ambient_temperature
        IN  /\ Between(s0, s1, amb)
            /\ FLe(FAbs(FSub(s1, amb)), FAbs(FSub(s0, amb)))

\* C10 witness: on a later tick, with the surface temperature fed back, the
\* surface moves strictly closer to ambient without reaching it.
C10_Witness ==
    /\ tick > 1
    /\ C10_Pre /\ C10_ExactCooling
    /\ ~FEq(output.surface_temperature, input.surface_temperature)
    /\ ~FEq(output.surface_temperature, input.ambient_temperature)

\* C10 further cases: a surface below ambient warms up; cooling_rate * delta = 1
\* lands exactly on ambient; with finite inputs and no heat, the rounding of
\* ambient - surface carries the result across ambient.
C10_FromBelow ==
    /\ C10_Pre /\ C10_ExactCooling
    /\ FLt(input.surface_temperature, input.ambient_temperature)
    /\ FGt(output.surface_temperature, input.surface_temperature)

C10_ReachesAmbient ==
    /\ C10_Pre /\ C10_ExactCooling
    /\ ~FEq(input.surface_temperature, input.ambient_temperature)
    /\ FEq(output.surface_temperature, input.ambient_temperature)

C10_RoundingCrosses ==
    /\ C10_Pre
    /\ IsZero(HeatGeneration(input))
    /\ IsFinite(input.surface_temperature) /\ IsFinite(output.surface_temperature)
    /\ ~Between(input.surface_temperature, output.surface_temperature,
                input.ambient_temperature)

====
